---- MODULE Spec2Model ----
(***************************************************************************)
(* State-machine model of StandupBot's sprint analysis engine              *)
(* (src/src/analyzer.py, class SprintAnalyzer) together with the tracker   *)
(* client calls it makes (src/src/jira_client.py) and the orchestrator     *)
(* that calls it once per configured project (src/src/runner.py).          *)
(*                                                                         *)
(* Conventions                                                             *)
(*   - A Python value that may be None/absent is a sequence of length 0    *)
(*     (None) or 1 (the value): None == <<>>, Some(v) == <<v>>.            *)
(*   - A Python list is a sequence; a dict whose iteration order matters   *)
(*     (field_mappings, workload, detailed_workload) is a sequence of      *)
(*     entries in insertion order.                                         *)
(*   - A percentage n / d * 100 is the exact rational <<n * 100, d>>; the  *)
(*     code's guard value 0 is <<0, 1>>.                                   *)
(*   - Timestamps are counted in units of 1/UnitsPerDay day since an       *)
(*     epoch; a date is a whole number of days.                            *)
(***************************************************************************)
EXTENDS Integers, Sequences, FiniteSets, TLC

VARIABLES
    config,             \* self.config["jira"], self.config["guidelines"], self.include_epics
    project_config,     \* the project_config argument of analyze
    sprint,             \* the sprint argument of analyze
    tracker,            \* what the tracker answers to the client's queries
    now,                \* datetime.now(timezone.utc)
    pc,                 \* position inside analyze
    fetched,            \* what get_sprint_issues returned
    issues,             \* local variable `issues` of analyze
    partial,            \* sub-results computed so far (locals of analyze)
    calls,              \* tracker calls made so far by this analyze call, in order
    result,             \* return value of analyze
    args,               \* report_type, export, skip_pdf, send_email_report of execute_run
    projects,           \* config["projects"]
    site,               \* the tracker site: how connecting ends, one board per project
    rpc,                \* position inside execute_run
    proj,                \* position of the loop over the projects
    summary,            \* local variable `summary` of execute_run
    log                 \* what execute_run has called so far, in order

vars == <<config, project_config, sprint, tracker, now, pc, fetched, issues, partial,
          calls, result, args, projects, site, rpc, proj, summary, log>>

(* The state of execute_run, which analyze leaves alone *)
runner == <<args, projects, site, rpc, proj, summary, log>>

----------------------------------------------------------------------------
(* Bounds of the model *)

MaxIssues == 2          \* longest issue list a query returns
MaxProjects == 2        \* longest project list of a configuration

(* Units of the time model: half days, so that an elapsed time need not be
   a whole number of days. *)
UnitsPerDay == 2

(* The calendar date, in days since the epoch, on which analyze runs *)
Today == 20

----------------------------------------------------------------------------
(* Optional values *)

None == <<>>
Some(v) == <<v>>
IsNone(o) == Len(o) = 0

(* Sequence helpers *)
RECURSIVE SumSeq(_)
SumSeq(s) == IF s = <<>> THEN 0 ELSE Head(s) + SumSeq(Tail(s))

Range(s) == {s[i] : i \in DOMAIN s}

Contains(s, x) == \E i \in DOMAIN s : s[i] = x

(* Index of the first TRUE of a sequence of booleans, 0 when there is none:
   where a `for` loop that breaks on its first match stops *)
FirstTrue(b) ==
    IF \E i \in DOMAIN b : b[i]
    THEN CHOOSE i \in DOMAIN b : b[i] /\ \A j \in 1..(i - 1) : ~b[j]
    ELSE 0

(* All orders in which the elements of a finite set can be listed *)
Orderings(S) ==
    {f \in [1..Cardinality(S) -> S] : \A i, j \in 1..Cardinality(S) : i # j => f[i] # f[j]}

(* str.lower() on the strings that occur as issue type names and labels *)
Lower(s) ==
    CASE s = "Bug" -> "bug"
      [] s = "BUG" -> "bug"
      [] s = "Story" -> "story"
      [] s = "Task" -> "task"
      [] s = "Blocker" -> "blocker"
      [] s = "BLOCKER" -> "blocker"
      [] s = "Impediment" -> "impediment"
      [] s = "Urgent" -> "urgent"
      [] OTHER -> s

(* Exact rational percentage n / d * 100, with the code's "else 0" guard *)
Pct(n, d) == IF d > 0 THEN <<n * 100, d>> ELSE <<0, 1>>
PctEq(p, q) == p[1] * q[2] = q[1] * p[2]
PctGreater(p, t) == p[1] > t * p[2]
PctInRange(p) == p[1] >= 0 /\ p[1] <= 100 * p[2]

----------------------------------------------------------------------------
(* Field resolution *)

DefaultStoryPointsField == "customfield_10016"

(* getattr(issue.fields, field_id, None): an absent attribute and a None
   attribute are both None *)
GetAttr(issue, field_id) ==
    IF field_id \in DOMAIN issue.cf THEN issue.cf[field_id] ELSE None

IsStoryPointsName(entry) ==
    entry[2] = "Story point estimate" \/ entry[2] = "Story Points"

(* _calculate_metrics / _analyze_workload: explicit config, else the first
   mapping entry named "Story point estimate" or "Story Points", else the
   default id *)
ResolveStoryPointsField(cfg) ==
    IF ~IsNone(cfg.story_points_field)
    THEN cfg.story_points_field[1]
    ELSE LET i == FirstTrue([k \in DOMAIN cfg.field_mappings |->
                                IsStoryPointsName(cfg.field_mappings[k])])
         IN  IF i # 0 THEN cfg.field_mappings[i][1] ELSE DefaultStoryPointsField

(* _check_sprint_hygiene / _analyze_detailed_workload:
   config.get("story_points_field", "customfield_10016") *)
ConfiguredStoryPointsField(cfg) ==
    IF ~IsNone(cfg.story_points_field)
    THEN cfg.story_points_field[1]
    ELSE DefaultStoryPointsField

IsEpicName(entry) == entry[2] = "Epic Link" \/ entry[2] = "Epic Name"

(* _extract_epics: explicit config, else the first mapping entry named
   "Epic Link" or "Epic Name" (the loop breaks on either), else None *)
ResolveEpicLinkField(cfg) ==
    IF ~IsNone(cfg.epic_link_field)
    THEN cfg.epic_link_field
    ELSE LET i == FirstTrue([k \in DOMAIN cfg.field_mappings |->
                                IsEpicName(cfg.field_mappings[k])])
         IN  IF i # 0 THEN Some(cfg.field_mappings[i][1]) ELSE None

(* getattr(issue.fields, field_id, 0) or 0 *)
StoryPoints(issue, field_id) ==
    LET v == GetAttr(issue, field_id) IN IF IsNone(v) THEN 0 ELSE v[1]

(* not getattr(issue.fields, field_id, None) *)
NoEstimate(issue, field_id) ==
    LET v == GetAttr(issue, field_id) IN IsNone(v) \/ v[1] = 0

----------------------------------------------------------------------------
(* Guidelines *)

EmptyGuidelines ==
    [cancelled_statuses |-> None, max_unassigned_pct |-> None,
     max_unestimated_pct |-> None, max_issues_without_fix_versions_pct |-> None,
     stale_issue_days |-> None, blocker_labels |-> None]

(* project_config.get("guidelines", self.config.get("guidelines", {})) *)
GuidelinesInEffect(pcfg, cfg) ==
    IF ~IsNone(pcfg.guidelines) THEN pcfg.guidelines[1]
    ELSE IF ~IsNone(cfg.guidelines) THEN cfg.guidelines[1]
    ELSE EmptyGuidelines

(* guidelines.get(key, default) *)
GetOr(option, default) == IF IsNone(option) THEN default ELSE option[1]

DefaultMaxUnassignedPct == 10
DefaultMaxUnestimatedPct == 10
DefaultMaxIssuesWithoutFixVersionsPct == 0
DefaultStaleIssueDays == 7
DefaultBlockerLabels == <<"blocker", "impediment">>

----------------------------------------------------------------------------
(* analyze, lines 33-44: drop the issues with a cancelled status *)

(* Variant: the cancelled issues stay in the list *)
FilterCancelledKeepAll(iss, g) == iss

FilterCancelled(iss, g) ==
    LET cancelled_statuses == GetOr(g.cancelled_statuses, <<>>)
        Kept(issue) == ~Contains(cancelled_statuses, issue.status)
    IN  IF cancelled_statuses # <<>> THEN SelectSeq(iss, Kept) ELSE iss

KeysOf(iss) == [i \in DOMAIN iss |-> iss[i].key]

----------------------------------------------------------------------------
(* _calculate_metrics *)

TrackedStatuses == {"To Do", "In Progress", "Done"}

(* Variant: a status in review counts as in progress *)
CountStatusLoose(iss, s) ==
    Cardinality({i \in DOMAIN iss :
                    \/ iss[i].status = s
                    \/ (s = "In Progress" /\ iss[i].status = "In Review")})

CountStatus(iss, s) == Cardinality({i \in DOMAIN iss : iss[i].status = s})

(* Variant: the division is made whatever the issue count *)
ProgressPctUnguarded(status_counts, total_issues) ==
    <<status_counts["Done"] * 100, total_issues>>

(* Variant: work in progress counts as progress *)
ProgressPctStarted(status_counts, total_issues) ==
    IF total_issues > 0
    THEN Pct(status_counts["Done"] + status_counts["In Progress"], total_issues)
    ELSE <<0, 1>>

(* lines 246-248: Done count over the issue count, 0 for no issue *)
ProgressPct(status_counts, total_issues) ==
    IF total_issues > 0 THEN Pct(status_counts["Done"], total_issues) ELSE <<0, 1>>

CalculateMetrics(iss, cfg) ==
    LET story_points_field_id == ResolveStoryPointsField(cfg)
        total_issues == Len(iss)
        status_counts == [s \in TrackedStatuses |-> CountStatus(iss, s)]
        points == [i \in DOMAIN iss |-> StoryPoints(iss[i], story_points_field_id)]
        done_points == [i \in DOMAIN iss |->
                          IF iss[i].status = "Done" THEN points[i] ELSE 0]
    IN  [total_issues |-> total_issues,
         status_counts |-> status_counts,
         total_story_points |-> SumSeq(points),
         story_points_done |-> SumSeq(done_points),
         progress_pct |-> ProgressPct(status_counts, total_issues)]

----------------------------------------------------------------------------
(* _check_sprint_hygiene *)

(* Variant: a percentage equal to the threshold is flagged *)
HygieneEntryAtLeast(keys, pct, threshold) ==
    [keys |-> keys, count |-> Len(keys), percentage |-> pct,
     is_issue |-> pct[1] >= threshold * pct[2]]

(* lines 272-285 and 309-317: one entry of the hygiene map *)
HygieneEntry(keys, pct, threshold) ==
    [keys |-> keys, count |-> Len(keys), percentage |-> pct,
     is_issue |-> PctGreater(pct, threshold)]

CheckSprintHygiene(iss, cfg, g) ==
    LET Unassigned(issue) == IsNone(issue.assignee)
        Unestimated(issue) ==
            issue.issuetype # "Bug"
            /\ NoEstimate(issue, ConfiguredStoryPointsField(cfg))
        unassigned_issues == KeysOf(SelectSeq(iss, Unassigned))
        unestimated_issues == KeysOf(SelectSeq(iss, Unestimated))
        unassigned_pct == IF iss # <<>> THEN Pct(Len(unassigned_issues), Len(iss))
                          ELSE <<0, 1>>
        unestimated_pct == IF iss # <<>> THEN Pct(Len(unestimated_issues), Len(iss))
                           ELSE <<0, 1>>
    IN  [unassigned_issues |->
            HygieneEntry(unassigned_issues, unassigned_pct,
                         GetOr(g.max_unassigned_pct, DefaultMaxUnassignedPct)),
         unestimated_issues |->
            HygieneEntry(unestimated_issues, unestimated_pct,
                         GetOr(g.max_unestimated_pct, DefaultMaxUnestimatedPct))]

(* Variant: the type name is compared as written *)
NotBugTypeExact(issue) == issue.issuetype # "Bug"

(* lines 295 and 301: issue_type.lower() != "bug" *)
NotBugType(issue) == Lower(issue.issuetype) # "bug"

(* _check_fix_version_hygiene *)
CheckFixVersionHygiene(iss, g) ==
    LET NonBug(issue) == NotBugType(issue)
        Missing(issue) ==
            NonBug(issue)
            /\ (IsNone(issue.fixVersions) \/ Len(issue.fixVersions[1]) = 0)
        issues_without_fix_versions == KeysOf(SelectSeq(iss, Missing))
        total_non_bug_issues == Len(SelectSeq(iss, NonBug))
        fix_version_hygiene_pct ==
            IF total_non_bug_issues > 0
            THEN Pct(Len(issues_without_fix_versions), total_non_bug_issues)
            ELSE <<0, 1>>
    IN  HygieneEntry(issues_without_fix_versions, fix_version_hygiene_pct,
                     GetOr(g.max_issues_without_fix_versions_pct,
                           DefaultMaxIssuesWithoutFixVersionsPct))

----------------------------------------------------------------------------
(* _identify_risks *)

DateOf(t) == t \div UnitsPerDay          \* the calendar date of a timestamp
Midnight(day) == day * UnitsPerDay       \* 00:00 of a calendar date
ElapsedDays(from, to) == (to - from) \div UnitsPerDay   \* timedelta.days

(* Variant: the due date is compared with the current date *)
IsOverdueByDate(issue, t) ==
    /\ ~IsNone(issue.duedate)
    /\ issue.duedate[1].valid
    /\ issue.duedate[1].day < DateOf(t)
    /\ issue.status # "Done"

(* Variant: the status is not looked at *)
IsOverdueAnyStatus(issue, t) ==
    /\ ~IsNone(issue.duedate)
    /\ issue.duedate[1].valid
    /\ Midnight(issue.duedate[1].day) < t

(* lines 332-340: a due date that is set, parses, lies before now; status
   not Done.  A due date that does not parse raises ValueError, which is
   swallowed. *)
IsOverdue(issue, t) ==
    /\ ~IsNone(issue.duedate)
    /\ issue.duedate[1].valid
    /\ Midnight(issue.duedate[1].day) < t
    /\ issue.status # "Done"

(* lines 342-348 *)
IsStale(issue, t, stale_issue_days) ==
    ElapsedDays(issue.updated, t) > stale_issue_days

(* Variant: labels are compared as written *)
IsBlockerExact(issue, blocker_labels) ==
    \E i \in DOMAIN issue.labels :
        \E j \in DOMAIN blocker_labels : issue.labels[i] = blocker_labels[j]

(* lines 350-354 *)
IsBlocker(issue, blocker_labels) ==
    \E i \in DOMAIN issue.labels :
        \E j \in DOMAIN blocker_labels :
            Lower(issue.labels[i]) = Lower(blocker_labels[j])

StaleEntry(issue) == [key |-> issue.key, last_updated |-> DateOf(issue.updated)]

(* list(set(blocker_issues)): the distinct keys, in an order the hash seed
   of the process decides *)
BlockerKeyOrders(iss, blocker_labels) ==
    Orderings({iss[i].key : i \in {j \in DOMAIN iss : IsBlocker(iss[j], blocker_labels)}})

(* Variant: every matching label is counted, as without the `break` and the set *)
BlockerCountPerLabel(iss, blocker_labels) ==
    Cardinality({m \in UNION {{<<i, j>> : j \in DOMAIN iss[i].labels} : i \in DOMAIN iss} :
                    \E b \in DOMAIN blocker_labels :
                        Lower(iss[m[1]].labels[m[2]]) = Lower(blocker_labels[b])})

(* line 361: len(set(blocker_issues)) *)
BlockerCount(iss, blocker_labels) ==
    LET Blocker(issue) == IsBlocker(issue, blocker_labels)
    IN  Cardinality(Range(KeysOf(SelectSeq(iss, Blocker))))

(* The results _identify_risks can return: one per order of the blocker set *)
IdentifyRisks(iss, g, t) ==
    LET stale_issue_days == GetOr(g.stale_issue_days, DefaultStaleIssueDays)
        blocker_labels == GetOr(g.blocker_labels, DefaultBlockerLabels)
        Overdue(issue) == IsOverdue(issue, t)
        Stale(issue) == IsStale(issue, t, stale_issue_days)
        overdue_issues == KeysOf(SelectSeq(iss, Overdue))
        stale == SelectSeq(iss, Stale)
        stale_issues == [i \in DOMAIN stale |-> StaleEntry(stale[i])]
    IN  {[overdue_issues |-> [keys |-> overdue_issues, count |-> Len(overdue_issues)],
          stale_issues |-> [keys |-> stale_issues, count |-> Len(stale_issues)],
          blocker_issues |-> [keys |-> order,
                              count |-> BlockerCount(iss, blocker_labels)]]
         : order \in BlockerKeyOrders(iss, blocker_labels)}

----------------------------------------------------------------------------
(* _analyze_workload and _analyze_detailed_workload *)

HasAssignee(issue) == ~IsNone(issue.assignee)

(* The keys of a dict filled in this order: first occurrences only *)
FirstSeen(s) ==
    LET First(i) == \A j \in 1..(i - 1) : s[j] # s[i]
        idx == {i \in DOMAIN s : First(i)}
        Rank(i) == Cardinality({j \in idx : j <= i})
    IN  [r \in 1..Cardinality(idx) |-> s[CHOOSE i \in idx : Rank(i) = r]]

AssigneesOf(iss) ==
    LET assigned == SelectSeq(iss, HasAssignee)
    IN  FirstSeen([i \in DOMAIN assigned |-> assigned[i].assignee[1]])

(* Variant: descending, equal totals in reverse order of insertion *)
SortByPointsDescTiesReversed(entries) ==
    LET Pos(i) ==
            Cardinality({j \in DOMAIN entries :
                            \/ entries[j].total_points > entries[i].total_points
                            \/ (entries[j].total_points = entries[i].total_points /\ j > i)})
            + 1
    IN  [r \in DOMAIN entries |-> entries[CHOOSE i \in DOMAIN entries : Pos(i) = r]]

(* sorted(items, key=total_points, reverse=True): descending and stable *)
SortByPointsDesc(entries) ==
    LET Pos(i) ==
            Cardinality({j \in DOMAIN entries :
                            \/ entries[j].total_points > entries[i].total_points
                            \/ (entries[j].total_points = entries[i].total_points /\ j < i)})
            + 1
    IN  [r \in DOMAIN entries |-> entries[CHOOSE i \in DOMAIN entries : Pos(i) = r]]

AnalyzeWorkload(iss, cfg) ==
    LET story_points_field_id == ResolveStoryPointsField(cfg)
        names == AssigneesOf(iss)
        Total(name) ==
            LET mine == SelectSeq(iss, LAMBDA issue :
                                    HasAssignee(issue) /\ issue.assignee[1] = name)
            IN  SumSeq([i \in DOMAIN mine |-> StoryPoints(mine[i], story_points_field_id)])
    IN  SortByPointsDesc([n \in DOMAIN names |->
                            [assignee |-> names[n], total_points |-> Total(names[n])]])

(* Variant: the link is the bare issue key *)
DetailEntryBareKey(issue, cfg, t) ==
    [issue_key |-> issue.key,
     issue_link |-> <<issue.key>>,
     issue_type |-> issue.issuetype,
     story_points |-> StoryPoints(issue, ConfiguredStoryPointsField(cfg)),
     current_status |-> issue.status,
     days_assigned |-> ElapsedDays(issue.created, t)]

(* lines 113-132: one row of an assignee's issue list *)
DetailEntry(issue, cfg, t) ==
    [issue_key |-> issue.key,
     issue_link |-> <<cfg.jira_browse_url, issue.key>>,
     issue_type |-> issue.issuetype,
     story_points |-> StoryPoints(issue, ConfiguredStoryPointsField(cfg)),
     current_status |-> issue.status,
     days_assigned |-> ElapsedDays(issue.created, t)]

AnalyzeDetailedWorkload(iss, cfg, t) ==
    LET names == AssigneesOf(iss)
        Entries(name) ==
            LET mine == SelectSeq(iss, LAMBDA issue :
                                    HasAssignee(issue) /\ issue.assignee[1] = name)
            IN  [i \in DOMAIN mine |-> DetailEntry(mine[i], cfg, t)]
    IN  [n \in DOMAIN names |-> [assignee |-> names[n], entries |-> Entries(names[n])]]

----------------------------------------------------------------------------
(* _extract_epics *)

(* self.jira_client._client.issue(epic_key) succeeds for the keys the
   tracker knows as issues *)
LookupSucceeds(trk, epic_key) == epic_key \in DOMAIN trk.summaries

(* dict assignment epics[key] = value: a new key goes last, a known key
   keeps its place *)
DictPut(d, key, value) ==
    IF \E i \in DOMAIN d : d[i].key = key
    THEN [i \in DOMAIN d |-> IF d[i].key = key THEN [key |-> key, value |-> value] ELSE d[i]]
    ELSE Append(d, [key |-> key, value |-> value])

(* Variant: a lookup that raises is issued a second time *)
RECURSIVE EpicLoopRetry(_, _, _, _, _)
EpicLoopRetry(iss, field_id, cfg, trk, acc) ==
    IF iss = <<>> THEN acc
    ELSE LET epic_key == GetAttr(Head(iss), field_id)
             next ==
                 IF IsNone(epic_key) THEN acc
                 ELSE IF ~LookupSucceeds(trk, epic_key[1])
                 THEN [acc EXCEPT !.lookups = @ \o <<epic_key[1], epic_key[1]>>]
                 ELSE [lookups |-> Append(acc.lookups, epic_key[1]),
                       epics |-> DictPut(acc.epics, epic_key[1],
                                         [summary |-> trk.summaries[epic_key[1]],
                                          url |-> <<cfg.jira_browse_url, epic_key[1]>>])]
         IN  EpicLoopRetry(Tail(iss), field_id, cfg, trk, next)

(* Variant: the first lookup that raises ends the loop *)
RECURSIVE EpicLoopStopAtFailure(_, _, _, _, _)
EpicLoopStopAtFailure(iss, field_id, cfg, trk, acc) ==
    IF iss = <<>> THEN acc
    ELSE LET epic_key == GetAttr(Head(iss), field_id)
         IN  IF IsNone(epic_key)
             THEN EpicLoopStopAtFailure(Tail(iss), field_id, cfg, trk, acc)
             ELSE IF ~LookupSucceeds(trk, epic_key[1])
             THEN [acc EXCEPT !.lookups = Append(@, epic_key[1])]
             ELSE EpicLoopStopAtFailure(
                      Tail(iss), field_id, cfg, trk,
                      [lookups |-> Append(acc.lookups, epic_key[1]),
                       epics |-> DictPut(acc.epics, epic_key[1],
                                         [summary |-> trk.summaries[epic_key[1]],
                                          url |-> <<cfg.jira_browse_url, epic_key[1]>>])])

(* lines 194-205: one lookup per issue that has an epic key; a lookup that
   raises leaves the dict as it is *)
RECURSIVE EpicLoop(_, _, _, _, _)
EpicLoop(iss, field_id, cfg, trk, acc) ==
    IF iss = <<>> THEN acc
    ELSE LET epic_key == GetAttr(Head(iss), field_id)
             next ==
                 IF IsNone(epic_key) THEN acc
                 ELSE [lookups |-> Append(acc.lookups, epic_key[1]),
                       epics |->
                           IF LookupSucceeds(trk, epic_key[1])
                           THEN DictPut(acc.epics, epic_key[1],
                                        [summary |-> trk.summaries[epic_key[1]],
                                         url |-> <<cfg.jira_browse_url, epic_key[1]>>])
                           ELSE acc.epics]
         IN  EpicLoop(Tail(iss), field_id, cfg, trk, next)

(* Variant: without a resolved field the usual epic-link field is read *)
ExtractEpicsUsualField(iss, cfg, trk) ==
    LET epic_link_field_id == ResolveEpicLinkField(cfg)
    IN  EpicLoop(iss,
                 IF IsNone(epic_link_field_id) THEN "customfield_10014"
                 ELSE epic_link_field_id[1],
                 cfg, trk, [lookups |-> <<>>, epics |-> <<>>])

(* lines 168-206 *)
ExtractEpics(iss, cfg, trk) ==
    LET epic_link_field_id == ResolveEpicLinkField(cfg)
    IN  IF IsNone(epic_link_field_id)
        THEN [lookups |-> <<>>, epics |-> <<>>]
        ELSE EpicLoop(iss, epic_link_field_id[1], cfg, trk,
                      [lookups |-> <<>>, epics |-> <<>>])

----------------------------------------------------------------------------
(* Sprint delta *)

(* Variant: the resolution instant is compared with the end instant *)
CompletedAfterSprintEndByTime(iss, sprint_end) ==
    LET Late(issue) ==
            /\ ~IsNone(issue.resolutiondate)
            /\ issue.resolutiondate[1] > sprint_end
    IN  KeysOf(SelectSeq(iss, Late))

(* _analyze_issues_completed_after_sprint_end: date-only comparison *)
CompletedAfterSprintEnd(iss, sprint_end) ==
    LET Late(issue) ==
            /\ ~IsNone(issue.resolutiondate)
            /\ DateOf(issue.resolutiondate[1]) > DateOf(sprint_end)
    IN  KeysOf(SelectSeq(iss, Late))

(* JiraClient.search_issues: the tracker's answer, [] when the query raises *)
SearchIssues(answer, fails) == IF fails THEN <<>> ELSE answer

(* Variant: the status category is not looked at *)
RemovedFromSprintAnyCategory(all_sprint_issues, issues_in_sprint) ==
    LET current_sprint_issue_keys == Range(KeysOf(issues_in_sprint))
        Removed(issue) == issue.key \notin current_sprint_issue_keys
    IN  KeysOf(SelectSeq(all_sprint_issues, Removed))

(* _analyze_issues_removed_from_sprint, lines 156-166 *)
RemovedFromSprint(all_sprint_issues, issues_in_sprint) ==
    LET current_sprint_issue_keys == Range(KeysOf(issues_in_sprint))
        Removed(issue) ==
            /\ issue.key \notin current_sprint_issue_keys
            /\ issue.statusCategory # "Done"
    IN  KeysOf(SelectSeq(all_sprint_issues, Removed))

----------------------------------------------------------------------------
(* execute_run: the sprint it picks and what it records *)

ReportTypes == {"daily", "full", "previous"}

(* JiraClient.get_active_sprint: the first active sprint of the board, None
   when there is none or the tracker answers with an error *)
ActiveSprint(board) ==
    IF board.sprints_query_fails \/ board.active = <<>> THEN None
    ELSE Some(board.active[1])

(* JiraClient.get_last_closed_sprint: the closed sprint with the latest end
   date, the first such in the tracker's order (the sort is stable) *)
LastClosedSprint(board) ==
    IF board.sprints_query_fails \/ board.closed = <<>> THEN None
    ELSE LET closed == board.closed
             first == CHOOSE i \in DOMAIN closed :
                         \A j \in DOMAIN closed :
                             \/ closed[j].endDate < closed[i].endDate
                             \/ (closed[j].endDate = closed[i].endDate /\ i <= j)
         IN  Some(closed[first])

(* runner.py lines 31-35 *)
SprintLookup(report_type) ==
    IF report_type = "previous" THEN "get_last_closed_sprint" ELSE "get_active_sprint"
SprintToAnalyze(report_type, board) ==
    IF report_type = "previous" THEN LastClosedSprint(board) ELSE ActiveSprint(board)

(* runner.py lines 46-56: the reporter method that writes the report *)
GenerateReport(report_type) ==
    CASE report_type = "daily" -> "generate_daily_summary"
      [] report_type = "full" -> "generate_full_report"
      [] report_type = "previous" -> "generate_previous_sprint_report"

(* runner.py lines 62-64 *)
ExportFormats(skip_pdf) == IF skip_pdf THEN <<"md">> ELSE <<"md", "pdf">>

(* An entry of the summary and an entry of the call log *)
Message(kind, project_key) == [kind |-> kind, project |-> project_key]
Event(op, project_key) == [op |-> op, project |-> project_key]
FailedToInitialize == Message("Failed to initialize Jira Client", "")

----------------------------------------------------------------------------
(* The inputs of one run *)

KeyNames == <<"SB-1", "SB-2", "SB-3", "SB-4", "SB-5">>

BaseIssue(i) ==
    [key |-> KeyNames[i],
     status |-> "To Do",
     statusCategory |-> "To Do",
     assignee |-> Some("Alice"),
     issuetype |-> "Story",
     cf |-> [f \in {DefaultStoryPointsField} |-> Some(3)],
     duedate |-> None,
     updated |-> Today * UnitsPerDay - 1,
     created |-> 10 * UnitsPerDay,
     resolutiondate |-> None,
     labels |-> <<>>,
     fixVersions |-> Some(<<"1.0">>)]

BaseConfig ==
    [story_points_field |-> None,
     epic_link_field |-> None,
     field_mappings |-> <<>>,
     jira_browse_url |-> "https://jira.example/browse/",
     guidelines |-> None,
     include_epics |-> FALSE]

BaseProject == [project_key |-> "SB", guidelines |-> None]

BaseSprint == [id |-> 7, name |-> "Sprint 7", endDate |-> 18 * UnitsPerDay]

BaseTracker ==
    [sprint_issues |-> <<>>,
     sprint_query_fails |-> FALSE,
     history |-> <<>>,
     history_query_fails |-> FALSE,
     summaries |-> [k \in {"EPIC-1"} |-> "Checkout"]]

(* The issue list whose issue i is built by Make(i, f[i]) from the variation
   f[i] *)
IssueList(f, Make(_, _)) == [i \in DOMAIN f |-> Make(i, f[i])]

(* The variation lists of at most MaxIssues issues *)
Lengths == 0..MaxIssues

ProjectGuidelines(g) == [BaseProject EXCEPT !.guidelines = Some(g)]
GlobalGuidelines(g) == [BaseConfig EXCEPT !.guidelines = Some(g)]

BaseArgs ==
    [report_type |-> "daily", export |-> FALSE, skip_pdf |-> FALSE,
     send_email_report |-> FALSE]

(* A board with one active sprint and no closed one; trk is what the tracker
   answers about the sprint of the board *)
BaseBoard(trk) ==
    [active |-> <<BaseSprint>>, closed |-> <<>>, sprints_query_fails |-> FALSE,
     tracker |-> trk]

(* A daily run over one project whose board has an active sprint *)
OneProject(cfg, pcfg, trk) ==
    /\ config = cfg
    /\ args = BaseArgs
    /\ projects = <<pcfg>>
    /\ site = [connect |-> "ok", boards |-> <<BaseBoard(trk)>>]

Inputs(cfg, pcfg, sprint_issues) ==
    OneProject(cfg, pcfg, [BaseTracker EXCEPT !.sprint_issues = sprint_issues])

(* Family: status names against the cancelled-status filter, the guidelines
   coming from the project or from the global configuration *)
Statuses == {"To Do", "In Progress", "Done", "In Review", "Cancelled"}
CancelledChoices ==
    {None, Some(<<>>), Some(<<"Cancelled">>), Some(<<"Cancelled", "In Review">>),
     Some(<<"Done">>)}
MakeStatusIssue(i, v) == [BaseIssue(i) EXCEPT !.status = v]
StatusInputs ==
    \E c \in CancelledChoices, global \in BOOLEAN, n \in Lengths :
        \E f \in [1..n -> Statuses] :
            LET g == [EmptyGuidelines EXCEPT !.cancelled_statuses = c]
            IN  Inputs(IF global THEN GlobalGuidelines(g) ELSE BaseConfig,
                       IF global THEN BaseProject ELSE ProjectGuidelines(g),
                       IssueList(f, MakeStatusIssue))

(* Family: status, story points and assignee; the project's guidelines hide
   the global ones *)
MakePointsIssue(i, v) ==
    [BaseIssue(i) EXCEPT !.status = v[1],
                         !.cf = [c \in {DefaultStoryPointsField} |-> v[2]],
                         !.assignee = v[3]]
PointsInputs ==
    \E n \in Lengths :
        \E f \in [1..n -> {"To Do", "Done", "Cancelled"}
                            \X {None, Some(3)}
                            \X {None, Some("Alice"), Some("Bob")}] :
            Inputs(GlobalGuidelines(EmptyGuidelines),
                   ProjectGuidelines([EmptyGuidelines EXCEPT
                                         !.cancelled_statuses = Some(<<"Cancelled">>)]),
                   IssueList(f, MakePointsIssue))

Thresholds == {None, Some(0), Some(50), Some(100)}

(* Family: assignees against the unassigned threshold *)
MakeAssigneeIssue(i, v) == [BaseIssue(i) EXCEPT !.assignee = v]
AssigneeInputs ==
    \E t \in Thresholds, n \in Lengths :
        \E f \in [1..n -> {None, Some("Alice")}] :
            Inputs(BaseConfig,
                   ProjectGuidelines([EmptyGuidelines EXCEPT !.max_unassigned_pct = t]),
                   IssueList(f, MakeAssigneeIssue))

(* Family: issue type and estimate against the unestimated threshold *)
MakeEstimateIssue(i, v) ==
    [BaseIssue(i) EXCEPT !.issuetype = v[1],
                         !.cf = [c \in {DefaultStoryPointsField} |-> v[2]]]
EstimateInputs ==
    \E t \in Thresholds, n \in Lengths :
        \E f \in [1..n -> {"Story", "Bug", "bug"} \X {None, Some(0), Some(3)}] :
            Inputs(BaseConfig,
                   ProjectGuidelines([EmptyGuidelines EXCEPT !.max_unestimated_pct = t]),
                   IssueList(f, MakeEstimateIssue))

(* Family: issue type and fix versions against the fix-version threshold *)
MakeFixVersionIssue(i, v) ==
    [BaseIssue(i) EXCEPT !.issuetype = v[1], !.fixVersions = v[2]]
FixVersionInputs ==
    \E t \in {None, Some(0), Some(50)}, n \in Lengths :
        \E f \in [1..n -> {"Story", "Bug", "bug", "BUG"}
                            \X {None, Some(<<>>), Some(<<"1.0">>)}] :
            Inputs(BaseConfig,
                   ProjectGuidelines([EmptyGuidelines EXCEPT
                                         !.max_issues_without_fix_versions_pct = t]),
                   IssueList(f, MakeFixVersionIssue))

(* Family: where the story points live.  customfield_10026 is a story-points
   field of the tracker other than the default one. *)
OtherStoryPointsField == "customfield_10026"
StoryPointsMappings ==
    {<<>>,
     << <<OtherStoryPointsField, "Story Points">> >>,
     << <<"summary", "Summary">>, <<OtherStoryPointsField, "Story point estimate">> >>,
     << <<DefaultStoryPointsField, "Story Points">>,
        <<OtherStoryPointsField, "Story point estimate">> >>}
MakeFieldIssue(i, v) ==
    [BaseIssue(i) EXCEPT
        !.cf = (DefaultStoryPointsField :> v[1]) @@ (OtherStoryPointsField :> v[2]),
        !.assignee = v[3]]
StoryPointsFieldInputs ==
    \E c \in {None, Some(OtherStoryPointsField)}, m \in StoryPointsMappings, n \in Lengths :
        \E f \in [1..n -> {None, Some(3)} \X {None, Some(5)} \X {None, Some("Alice")}] :
            Inputs([BaseConfig EXCEPT !.story_points_field = c, !.field_mappings = m],
                   BaseProject,
                   IssueList(f, MakeFieldIssue))

(* Family: where the epic link lives, for every order of the mapping table *)
EpicLinkField == "customfield_10014"
EpicNameField == "customfield_10011"
EpicMappings ==
    LET link == <<EpicLinkField, "Epic Link">>
        name == <<EpicNameField, "Epic Name">>
    IN  {<<>>, <<link>>, <<name>>, <<link, name>>, <<name, link>>}
MakeEpicIssue(i, v) ==
    [BaseIssue(i) EXCEPT
        !.cf = (DefaultStoryPointsField :> Some(3)) @@ (EpicLinkField :> v[1])
               @@ (EpicNameField :> v[2])]
EpicInputs ==
    \E c \in {None, Some(EpicLinkField)}, m \in EpicMappings, e \in BOOLEAN, n \in Lengths :
        \E f \in [1..n -> {None, Some("EPIC-1"), Some("EPIC-2")} \X {None, Some("Platform")}] :
            Inputs([BaseConfig EXCEPT !.epic_link_field = c, !.field_mappings = m,
                                      !.include_epics = e],
                   BaseProject,
                   IssueList(f, MakeEpicIssue))

(* Family: due dates *)
DueDates ==
    {None, Some([valid |-> FALSE, day |-> 0]),
     Some([valid |-> TRUE, day |-> Today - 1]),
     Some([valid |-> TRUE, day |-> Today]),
     Some([valid |-> TRUE, day |-> Today + 1])}
MakeDueIssue(i, v) == [BaseIssue(i) EXCEPT !.duedate = v[1], !.status = v[2]]
DueInputs ==
    \E n \in Lengths :
        \E f \in [1..n -> DueDates \X {"To Do", "Done"}] :
            Inputs(BaseConfig, BaseProject, IssueList(f, MakeDueIssue))

(* Family: last-updated timestamps around the stale limit *)
UpdatedTimes ==
    {Today * UnitsPerDay,
     (Today - DefaultStaleIssueDays) * UnitsPerDay + 1,
     (Today - DefaultStaleIssueDays) * UnitsPerDay,
     (Today - DefaultStaleIssueDays - 1) * UnitsPerDay + 1}
MakeStaleIssue(i, v) == [BaseIssue(i) EXCEPT !.updated = v[1], !.status = v[2]]
StaleInputs ==
    \E d \in {None, Some(0)}, n \in Lengths :
        \E f \in [1..n -> UpdatedTimes \X {"To Do", "Done"}] :
            Inputs(BaseConfig,
                   ProjectGuidelines([EmptyGuidelines EXCEPT !.stale_issue_days = d]),
                   IssueList(f, MakeStaleIssue))

(* Family: labels against the blocker labels *)
LabelChoices ==
    {<<>>, <<"Blocker">>, <<"urgent">>, <<"frontend", "impediment">>,
     <<"blocker", "Impediment">>}
MakeLabelIssue(i, v) == [BaseIssue(i) EXCEPT !.labels = v[1], !.status = v[2]]
LabelInputs ==
    \E b \in {None, Some(<<"Urgent">>)}, n \in Lengths :
        \E f \in [1..n -> LabelChoices \X {"To Do", "Cancelled"}] :
            Inputs(BaseConfig,
                   ProjectGuidelines([EmptyGuidelines EXCEPT
                                         !.blocker_labels = b,
                                         !.cancelled_statuses = Some(<<"Cancelled">>)]),
                   IssueList(f, MakeLabelIssue))

(* Family: issues that carry several risks at once *)
MakeRiskIssue(i, v) ==
    [BaseIssue(i) EXCEPT !.duedate = v[1], !.updated = v[2], !.labels = v[3]]
RiskInputs ==
    \E n \in Lengths :
        \E f \in [1..n -> {None, Some([valid |-> FALSE, day |-> 0]),
                            Some([valid |-> TRUE, day |-> Today - 1])}
                            \X {Today * UnitsPerDay,
                                (Today - DefaultStaleIssueDays - 1) * UnitsPerDay}
                            \X {<<>>, <<"blocker">>}] :
            Inputs(BaseConfig, BaseProject, IssueList(f, MakeRiskIssue))

(* Family: resolution dates around the end of the sprint *)
ResolutionDates ==
    {None,
     Some(BaseSprint.endDate - 1),
     Some(BaseSprint.endDate),
     Some(BaseSprint.endDate + UnitsPerDay - 1),
     Some(BaseSprint.endDate + UnitsPerDay)}
MakeResolvedIssue(i, v) ==
    [BaseIssue(i) EXCEPT !.resolutiondate = v[1], !.status = v[2]]
ResolutionInputs ==
    \E n \in Lengths :
        \E f \in [1..n -> ResolutionDates \X {"Done", "Cancelled"}] :
            Inputs(BaseConfig,
                   ProjectGuidelines([EmptyGuidelines EXCEPT
                                         !.cancelled_statuses = Some(<<"Cancelled">>)]),
                   IssueList(f, MakeResolvedIssue))

(* Family: what the tracker holds for the sprint beyond its current issues.
   Each of the first MaxIssues + 1 keys is absent from the history or
   present in it: an issue of the sprint as the sprint query returns it,
   another issue with a status category that is or is not Done. *)
HistoryKeys == 1..(MaxIssues + 1)
HistoryOf(h, sprint_issues) ==
    LET present == SelectSeq([i \in HistoryKeys |-> i], LAMBDA i : h[i] # "absent")
    IN  [j \in DOMAIN present |->
            IF present[j] \in DOMAIN sprint_issues THEN sprint_issues[present[j]]
            ELSE [BaseIssue(present[j]) EXCEPT !.statusCategory = h[present[j]]]]
MakeHistoryIssue(i, v) == [BaseIssue(i) EXCEPT !.status = v[1], !.statusCategory = v[2]]
HistoryInputs ==
    \E n \in Lengths, fails \in BOOLEAN :
        \E f \in [1..n -> {<<"To Do", "To Do">>, <<"Cancelled", "To Do">>,
                            <<"Cancelled", "Done">>}],
           h \in IF fails THEN [HistoryKeys -> {"To Do"}]
                 ELSE [HistoryKeys -> {"absent", "To Do", "Done"}] :
            OneProject(BaseConfig,
                       ProjectGuidelines([EmptyGuidelines EXCEPT
                                             !.cancelled_statuses = Some(<<"Cancelled">>)]),
                       [BaseTracker EXCEPT
                           !.sprint_issues = IssueList(f, MakeHistoryIssue),
                           !.history = HistoryOf(h, IssueList(f, MakeHistoryIssue)),
                           !.history_query_fails = fails])

(* Family: epic lookups that raise, with a history query that may raise *)
MakeLinkedIssue(i, v) ==
    [BaseIssue(i) EXCEPT
        !.cf = (DefaultStoryPointsField :> Some(3)) @@ (EpicLinkField :> v)]
FailedLookupInputs ==
    \E n \in Lengths, fails \in BOOLEAN :
        \E f \in [1..n -> {None, Some("EPIC-1"), Some("EPIC-2")}] :
            OneProject([BaseConfig EXCEPT !.epic_link_field = Some(EpicLinkField),
                                          !.include_epics = TRUE],
                       BaseProject,
                       [BaseTracker EXCEPT
                           !.sprint_issues = IssueList(f, MakeLinkedIssue),
                           !.history = <<BaseIssue(MaxIssues + 1)>>,
                           !.history_query_fails = fails])

(* Family: the sprint query raises inside the client, whatever the sprint holds *)
FailedQueryInputs ==
    \E n \in Lengths :
        \E f \in [1..n -> {"To Do", "Done"}] :
            OneProject(BaseConfig, BaseProject,
                       [BaseTracker EXCEPT !.sprint_issues = IssueList(f, MakeStatusIssue),
                                           !.sprint_query_fails = TRUE])

(* The moments of the current date at which analyze may run, midnight
   included *)
MomentsOfToday == {Today * UnitsPerDay + u : u \in 0..(UnitsPerDay - 1)}

(* Family: issues due today or tomorrow, analysed at any moment of today *)
MakeDueSoonIssue(i, v) == [BaseIssue(i) EXCEPT !.duedate = Some([valid |-> TRUE, day |-> v])]
DueSoonInputs ==
    \E n \in Lengths :
        \E f \in [1..n -> {Today, Today + 1}] :
            Inputs(BaseConfig, BaseProject, IssueList(f, MakeDueSoonIssue))

(* Family: sprints whose issues are cancelled, against thresholds left at
   their defaults or set to 0 *)
MakeCancelledIssue(i, v) ==
    [BaseIssue(i) EXCEPT !.status = v[1], !.assignee = v[2], !.fixVersions = v[3]]
CancelledInputs ==
    \E t \in {None, Some(0)}, n \in Lengths :
        \E f \in [1..n -> {"Cancelled", "To Do"} \X {None, Some("Alice")}
                            \X {None, Some(<<"1.0">>)}] :
            Inputs(BaseConfig,
                   ProjectGuidelines([EmptyGuidelines EXCEPT
                                         !.cancelled_statuses = Some(<<"Cancelled">>),
                                         !.max_unassigned_pct = t,
                                         !.max_unestimated_pct = t,
                                         !.max_issues_without_fix_versions_pct = t]),
                   IssueList(f, MakeCancelledIssue))

(* Family: the tracker client cannot be built *)
ProjectKeys == <<"SB", "OPS", "WEB", "APP">>
ProjectNamed(i) == [BaseProject EXCEPT !.project_key = ProjectKeys[i]]
ConnectInputs ==
    \E c \in {"ConnectionError", "error"}, rt \in ReportTypes, ex \in BOOLEAN,
       n \in 0..MaxProjects :
        /\ config = BaseConfig
        /\ args = [BaseArgs EXCEPT !.report_type = rt, !.export = ex]
        /\ projects = [i \in 1..n |-> ProjectNamed(i)]
        /\ site = [connect |-> c,
                   boards |-> [i \in 1..n |->
                                 BaseBoard([BaseTracker EXCEPT
                                               !.sprint_issues = <<BaseIssue(i)>>])]]

(* Family: several projects, each with a board that has or lacks sprints and
   a sprint that has or lacks issues *)
OlderSprint == [id |-> 5, name |-> "Sprint 5", endDate |-> 4 * UnitsPerDay]
ClosedSprint == [id |-> 6, name |-> "Sprint 6", endDate |-> 11 * UnitsPerDay]
BoardChoices == {"no sprint", "sprints query fails", "active only", "closed only",
                 "no issues", "issues"}
BoardOf(i, choice) ==
    LET trk == [BaseTracker EXCEPT
                   !.sprint_issues = IF choice = "no issues" THEN <<>> ELSE <<BaseIssue(i)>>,
                   !.history = <<BaseIssue(i), BaseIssue(MaxProjects + 2)>>]
    IN  [active |-> IF choice \in {"no sprint", "closed only"} THEN <<>>
                    ELSE <<BaseSprint>>,
         closed |-> IF choice \in {"no sprint", "active only"} THEN <<>>
                    ELSE IF choice = "closed only" THEN <<ClosedSprint, OlderSprint>>
                    ELSE <<OlderSprint, ClosedSprint>>,
         sprints_query_fails |-> (choice = "sprints query fails"),
         tracker |-> trk]
ProjectsInputs ==
    \E rt \in ReportTypes, ex \in BOOLEAN, n \in 0..MaxProjects :
        \E pdf \in IF ex THEN BOOLEAN ELSE {FALSE}, b \in [1..n -> BoardChoices] :
            /\ config = BaseConfig
            /\ args = [BaseArgs EXCEPT !.report_type = rt, !.export = ex,
                                       !.skip_pdf = pdf, !.send_email_report = ex]
            /\ projects = [i \in 1..n |-> ProjectNamed(i)]
            /\ site = [connect |-> "ok", boards |-> [i \in 1..n |-> BoardOf(i, b[i])]]

NoPartial ==
    [metrics |-> None, hygiene |-> None, risks |-> None, workload |-> None,
     epics |-> None, detailed_workload |-> None,
     issues_completed_after_sprint_end |-> None,
     issues_removed_from_sprint |-> None]

(* execute_run is about to start; analyze has not been called yet, its
   arguments and locals hold nothing of interest *)
Init ==
    /\ \/ /\ \/ StatusInputs
             \/ PointsInputs
             \/ AssigneeInputs
             \/ EstimateInputs
             \/ FixVersionInputs
             \/ StoryPointsFieldInputs
             \/ EpicInputs
             \/ DueInputs
             \/ StaleInputs
             \/ LabelInputs
             \/ RiskInputs
             \/ ResolutionInputs
             \/ HistoryInputs
             \/ FailedLookupInputs
             \/ FailedQueryInputs
             \/ CancelledInputs
             \/ ConnectInputs
             \/ ProjectsInputs
          /\ now = Today * UnitsPerDay + 1
       \/ /\ DueSoonInputs
          /\ now \in MomentsOfToday
    /\ project_config = BaseProject
    /\ sprint = BaseSprint
    /\ tracker = BaseTracker
    /\ pc = "idle"
    /\ fetched = <<>>
    /\ issues = <<>>
    /\ partial = NoPartial
    /\ calls = <<>>
    /\ result = None
    /\ rpc = "start"
    /\ proj = 1
    /\ summary = <<>>
    /\ log = <<>>

----------------------------------------------------------------------------
(* analyze, step by step *)

SprintQuery == [op |-> "search_issues", arg |-> "sprint = <id>"]
HistoryQuery == [op |-> "search_issues", arg |-> "project = <key> AND sprint = <id>"]
IssueLookup(key) == [op |-> "issue", arg |-> key]

(* Variant: the empty sprint is not recognised *)
NoIssuesNever(iss) == FALSE

(* line 24: `if not issues` *)
NoIssues(iss) == iss = <<>>

(* line 23: issues = self.jira_client.get_sprint_issues(sprint.id) *)
GetSprintIssues ==
    /\ pc = "start"
    /\ calls' = Append(calls, SprintQuery)
    /\ fetched' = SearchIssues(tracker.sprint_issues, tracker.sprint_query_fails)
    /\ issues' = fetched'
    /\ pc' = "fetched"
    /\ UNCHANGED <<config, project_config, sprint, tracker, now, partial, result>>
    /\ UNCHANGED runner

(* lines 24-28: nothing fetched, return None *)
ReturnNone ==
    /\ pc = "fetched"
    /\ NoIssues(issues)
    /\ result' = None
    /\ pc' = "done"
    /\ UNCHANGED <<config, project_config, sprint, tracker, now, fetched, issues,
                   partial, calls>>
    /\ UNCHANGED runner

(* lines 31-55: filter, metrics, hygiene, risks, workload *)
AnalyzeIssues ==
    /\ pc = "fetched"
    /\ ~NoIssues(issues)
    /\ LET guidelines == GuidelinesInEffect(project_config, config)
           filtered == FilterCancelled(issues, guidelines)
           hygiene == CheckSprintHygiene(filtered, config, guidelines)
       IN  /\ issues' = filtered
           /\ \E risks \in IdentifyRisks(filtered, guidelines, now) :
                partial' =
                    [partial EXCEPT
                        !.metrics = Some(CalculateMetrics(filtered, config)),
                        !.hygiene =
                            Some([unassigned_issues |-> hygiene.unassigned_issues,
                                  unestimated_issues |-> hygiene.unestimated_issues,
                                  issues_without_fix_versions |->
                                      CheckFixVersionHygiene(filtered, guidelines)]),
                        !.risks = Some(risks),
                        !.workload = Some(AnalyzeWorkload(filtered, config))]
    /\ pc' = "epics"
    /\ UNCHANGED <<config, project_config, sprint, tracker, now, fetched, calls, result>>
    /\ UNCHANGED runner

(* lines 57-60 *)
Epics ==
    /\ pc = "epics"
    /\ IF config.include_epics
       THEN LET e == ExtractEpics(issues, config, tracker)
            IN  /\ partial' = [partial EXCEPT !.epics = Some(e.epics)]
                /\ calls' = calls \o [i \in DOMAIN e.lookups |-> IssueLookup(e.lookups[i])]
       ELSE /\ partial' = [partial EXCEPT !.epics = Some(<<>>)]
            /\ calls' = calls
    /\ pc' = "detail"
    /\ UNCHANGED <<config, project_config, sprint, tracker, now, fetched, issues, result>>
    /\ UNCHANGED runner

(* lines 62-71 *)
Detail ==
    /\ pc = "detail"
    /\ partial' =
        [partial EXCEPT
            !.detailed_workload = Some(AnalyzeDetailedWorkload(issues, config, now)),
            !.issues_completed_after_sprint_end =
                Some(CompletedAfterSprintEnd(issues, sprint.endDate))]
    /\ pc' = "removed"
    /\ UNCHANGED <<config, project_config, sprint, tracker, now, fetched, issues,
                   calls, result>>
    /\ UNCHANGED runner

(* lines 73-76 and 147-166 *)
Removed ==
    /\ pc = "removed"
    /\ calls' = Append(calls, HistoryQuery)
    /\ partial' =
        [partial EXCEPT
            !.issues_removed_from_sprint =
                Some(RemovedFromSprint(
                        SearchIssues(tracker.history, tracker.history_query_fails),
                        issues))]
    /\ pc' = "return"
    /\ UNCHANGED <<config, project_config, sprint, tracker, now, fetched, issues, result>>
    /\ UNCHANGED runner

(* lines 78-96 *)
ReturnResults ==
    /\ pc = "return"
    /\ result' =
        Some([metrics |-> partial.metrics[1],
              hygiene |-> partial.hygiene[1],
              risks |-> partial.risks[1],
              workload |-> partial.workload[1],
              epics |-> partial.epics[1],
              detailed_workload |-> partial.detailed_workload[1],
              issues_completed_after_sprint_end |->
                  partial.issues_completed_after_sprint_end[1],
              issues_removed_from_sprint |-> partial.issues_removed_from_sprint[1],
              all_issues |-> issues])
    /\ pc' = "done"
    /\ UNCHANGED <<config, project_config, sprint, tracker, now, fetched, issues,
                   partial, calls>>
    /\ UNCHANGED runner

----------------------------------------------------------------------------
(* execute_run, step by step (runner.py). Lines 14-17 empty the reports
   directory; the directory is not part of the state. *)

analysis == <<config, project_config, sprint, tracker, now, pc, fetched, issues,
              partial, calls, result>>

(* lines 19-25: the client is built *)
Connect ==
    /\ rpc = "start"
    /\ site.connect = "ok"
    /\ rpc' = "loop"
    /\ proj' = 1
    /\ UNCHANGED <<analysis, args, projects, site, summary, log>>

(* Variant: after a ConnectionError the run goes on to the projects *)
ConnectFailsGoesOn ==
    /\ rpc = "start"
    /\ site.connect = "ConnectionError"
    /\ summary' = Append(summary, FailedToInitialize)
    /\ rpc' = "loop"
    /\ proj' = 1
    /\ UNCHANGED <<analysis, args, projects, site, log>>

(* lines 21-23: ConnectionError, the summary is returned with one message *)
ConnectFails ==
    /\ rpc = "start"
    /\ site.connect = "ConnectionError"
    /\ summary' = Append(summary, FailedToInitialize)
    /\ rpc' = "returned"
    /\ UNCHANGED <<analysis, args, projects, site, proj, log>>

(* line 20: any other exception of the constructor leaves execute_run *)
ConnectRaises ==
    /\ rpc = "start"
    /\ site.connect = "error"
    /\ rpc' = "raised"
    /\ UNCHANGED <<analysis, args, projects, site, proj, summary, log>>

(* Variant: a project without sprint ends the loop *)
SkipProjectAndStop ==
    /\ rpc = "loop"
    /\ proj <= Len(projects)
    /\ IsNone(SprintToAnalyze(args.report_type, site.boards[proj]))
    /\ log' = Append(log, Event(SprintLookup(args.report_type), projects[proj].project_key))
    /\ summary' = Append(summary, Message("No sprint found", projects[proj].project_key))
    /\ rpc' = "returned"
    /\ UNCHANGED <<analysis, args, projects, site, proj>>

(* lines 27-39: the next project has no sprint to analyze *)
SkipProject ==
    /\ rpc = "loop"
    /\ proj <= Len(projects)
    /\ IsNone(SprintToAnalyze(args.report_type, site.boards[proj]))
    /\ log' = Append(log, Event(SprintLookup(args.report_type), projects[proj].project_key))
    /\ summary' = Append(summary, Message("No sprint found", projects[proj].project_key))
    /\ proj' = proj + 1
    /\ UNCHANGED <<analysis, args, projects, site, rpc>>

(* lines 27-41: the next project has a sprint, analyze is called with it *)
CallAnalyze ==
    /\ rpc = "loop"
    /\ proj <= Len(projects)
    /\ LET sprint_to_analyze == SprintToAnalyze(args.report_type, site.boards[proj])
       IN  /\ ~IsNone(sprint_to_analyze)
           /\ sprint' = sprint_to_analyze[1]
    /\ log' = log \o <<Event(SprintLookup(args.report_type), projects[proj].project_key),
                        Event("analyze", projects[proj].project_key)>>
    /\ project_config' = projects[proj]
    /\ tracker' = site.boards[proj].tracker
    /\ pc' = "start"
    /\ fetched' = <<>>
    /\ issues' = <<>>
    /\ partial' = NoPartial
    /\ calls' = <<>>
    /\ result' = None
    /\ rpc' = "analyze"
    /\ UNCHANGED <<config, now, args, projects, site, proj, summary>>

(* lines 43, 124-125: analyze returned None *)
NoResults ==
    /\ rpc = "analyze"
    /\ pc = "done"
    /\ IsNone(result)
    /\ summary' = Append(summary, Message("No analysis results", projects[proj].project_key))
    /\ log' = Append(log, Event("analyze returned", projects[proj].project_key))
    /\ proj' = proj + 1
    /\ rpc' = "loop"
    /\ UNCHANGED <<analysis, args, projects, site>>

(* lines 43-58, 122-123: the report is written, export is off *)
ReportProject ==
    /\ rpc = "analyze"
    /\ pc = "done"
    /\ ~IsNone(result)
    /\ ~args.export
    /\ log' = log \o <<Event("analyze returned", projects[proj].project_key),
                        Event(GenerateReport(args.report_type), projects[proj].project_key)>>
    /\ summary' = summary \o <<Message("Analysis complete", projects[proj].project_key),
                                Message("Report generated", projects[proj].project_key),
                                Message("Export was not enabled", "")>>
    /\ proj' = proj + 1
    /\ rpc' = "loop"
    /\ UNCHANGED <<analysis, args, projects, site>>

(* lines 43-67: export is on; export_report writes the files and returns
   nothing, and the loop over its return value raises TypeError, which
   leaves execute_run *)
ExportRaises ==
    /\ rpc = "analyze"
    /\ pc = "done"
    /\ ~IsNone(result)
    /\ args.export
    /\ log' = log \o <<Event("analyze returned", projects[proj].project_key),
                        Event(GenerateReport(args.report_type), projects[proj].project_key),
                        [op |-> "export_report", project |-> projects[proj].project_key,
                         formats |-> ExportFormats(args.skip_pdf)]>>
    /\ summary' = summary \o <<Message("Analysis complete", projects[proj].project_key),
                                Message("Report generated", projects[proj].project_key)>>
    /\ rpc' = "raised"
    /\ UNCHANGED <<analysis, args, projects, site, proj>>

(* line 127: every project has been dealt with *)
ReturnSummary ==
    /\ rpc = "loop"
    /\ proj > Len(projects)
    /\ rpc' = "returned"
    /\ UNCHANGED <<analysis, args, projects, site, proj, summary, log>>

Next ==
    \/ Connect
    \/ ConnectFails
    \/ ConnectRaises
    \/ SkipProject
    \/ CallAnalyze
    \/ GetSprintIssues
    \/ ReturnNone
    \/ AnalyzeIssues
    \/ Epics
    \/ Detail
    \/ Removed
    \/ ReturnResults
    \/ NoResults
    \/ ReportProject
    \/ ExportRaises
    \/ ReturnSummary

Spec == Init /\ [][Next]_vars

Returned == pc = "done"
ReturnedResults == pc = "done" /\ ~IsNone(result)

----------------------------------------------------------------------------
(* Properties of analyze *)

R == result[1]                       \* the returned result, when there is one
Guidelines == GuidelinesInEffect(project_config, config)

(* The statuses the guidelines in effect name as cancelled *)
CancelledStatusSet ==
    IF IsNone(Guidelines.cancelled_statuses) THEN {}
    ELSE Range(Guidelines.cancelled_statuses[1])

NotCancelled(issue) == issue.status \notin CancelledStatusSet
CancelledKeys == {fetched[i].key : i \in {j \in DOMAIN fetched : ~NotCancelled(fetched[j])}}

IsLookup(call) == call.op = "issue"
AfterFetch == {"fetched", "epics", "detail", "removed", "return", "done"}

(* C1: when get_sprint_issues returns an empty list, analyze returns None,
   having made no other tracker call and computed no sub-result. *)
C1_EmptySprintReturnsNone ==
    (pc \in AfterFetch /\ fetched = <<>>) =>
        /\ pc \in {"fetched", "done"}
        /\ pc = "done" => IsNone(result)
        /\ calls = <<SprintQuery>>
        /\ partial = NoPartial

C1_Witness == pc = "done" /\ fetched = <<>> /\ IsNone(result) /\ Len(calls) = 1

(* Every issue key that occurs anywhere in the sub-results *)
HygieneKeys(h) ==
    Range(h.unassigned_issues.keys) \cup Range(h.unestimated_issues.keys)
    \cup Range(h.issues_without_fix_versions.keys)
RiskKeys(r) ==
    Range(r.overdue_issues.keys) \cup {e.key : e \in Range(r.stale_issues.keys)}
    \cup Range(r.blocker_issues.keys)
DetailKeys(d) == UNION {{e.issue_key : e \in Range(d[n].entries)} : n \in DOMAIN d}
ReportedKeys(r) == HygieneKeys(r.hygiene) \cup RiskKeys(r.risks) \cup DetailKeys(r.detailed_workload)
AssigneesIn(iss) == {iss[i].assignee[1] : i \in {j \in DOMAIN iss : ~IsNone(iss[j].assignee)}}

(* The part of C2 that does not speak of denominators: all_issues is the
   fetched list without the cancelled issues, in fetched order; the metrics
   count that list; no cancelled key is reported; the workloads name the
   assignees of that list only. *)
FilteredOnly ==
    /\ R.all_issues = SelectSeq(fetched, NotCancelled)
    /\ R.metrics.total_issues = Len(R.all_issues)
    /\ ReportedKeys(R) \cap CancelledKeys = {}
    /\ ReportedKeys(R) \subseteq Range(KeysOf(R.all_issues))
    /\ {R.workload[n].assignee : n \in DOMAIN R.workload} = AssigneesIn(R.all_issues)
    /\ {R.detailed_workload[n].assignee : n \in DOMAIN R.detailed_workload}
          = AssigneesIn(R.all_issues)

NonBugCount(iss) ==
    Cardinality({i \in DOMAIN iss : iss[i].issuetype \notin {"Bug", "bug", "BUG"}})

(* C2 as stated: every percentage has the post-filter issue count as its
   denominator. *)
C2_AllPercentagesOverFilteredCount ==
    ReturnedResults =>
        /\ FilteredOnly
        /\ LET n == Len(R.all_issues)
               h == R.hygiene
           IN  /\ PctEq(R.metrics.progress_pct, Pct(R.metrics.status_counts["Done"], n))
               /\ PctEq(h.unassigned_issues.percentage, Pct(h.unassigned_issues.count, n))
               /\ PctEq(h.unestimated_issues.percentage, Pct(h.unestimated_issues.count, n))
               /\ PctEq(h.issues_without_fix_versions.percentage,
                        Pct(h.issues_without_fix_versions.count, n))

(* C2, amended: every percentage has a post-filter count as its denominator:
   the number of filtered issues for progress, unassigned and unestimated,
   the number of filtered non-bug issues for the fix versions. *)
C2_ComputedOverFilteredIssues ==
    ReturnedResults =>
        /\ FilteredOnly
        /\ LET n == Len(R.all_issues)
               h == R.hygiene
           IN  /\ PctEq(R.metrics.progress_pct, Pct(R.metrics.status_counts["Done"], n))
               /\ PctEq(h.unassigned_issues.percentage, Pct(h.unassigned_issues.count, n))
               /\ PctEq(h.unestimated_issues.percentage, Pct(h.unestimated_issues.count, n))
               /\ PctEq(h.issues_without_fix_versions.percentage,
                        Pct(h.issues_without_fix_versions.count, NonBugCount(R.all_issues)))

C2_Witness ==
    /\ ReturnedResults
    /\ Len(R.all_issues) = 1
    /\ Len(fetched) = 2
    /\ \E i \in DOMAIN fetched : ~NotCancelled(fetched[i]) /\ IsNone(fetched[i].assignee)

(* C3: total_issues is the length of the list, status_counts has exactly
   the keys To Do, In Progress and Done, each bucket counts the issues of
   exactly that status name, and the buckets add up to at most the total. *)
C3_StatusCounts ==
    ReturnedResults =>
        LET m == R.metrics
            Named(s) == {i \in DOMAIN R.all_issues : R.all_issues[i].status = s}
        IN  /\ m.total_issues = Len(R.all_issues)
            /\ DOMAIN m.status_counts = {"To Do", "In Progress", "Done"}
            /\ \A s \in {"To Do", "In Progress", "Done"} :
                  m.status_counts[s] = Cardinality(Named(s))
            /\ m.status_counts["Done"] + m.status_counts["To Do"]
                  + m.status_counts["In Progress"] <= m.total_issues

C3_Witness ==
    /\ ReturnedResults
    /\ \E i \in DOMAIN R.all_issues : R.all_issues[i].status = "In Review"
    /\ \E i \in DOMAIN R.all_issues : R.all_issues[i].status = "In Progress"
    /\ R.metrics.status_counts["In Progress"] = 1
    /\ R.metrics.total_issues = 2

(* C4: progress_pct is 0 for no issue, otherwise the number of Done issues
   over the number of issues times 100, whatever the story points, and lies
   in [0, 100]. *)
C4_ProgressPct ==
    ReturnedResults =>
        LET m == R.metrics
            done == Cardinality({i \in DOMAIN R.all_issues : R.all_issues[i].status = "Done"})
        IN  /\ m.total_issues = 0 => PctEq(m.progress_pct, <<0, 1>>)
            /\ m.total_issues > 0 => PctEq(m.progress_pct, <<done * 100, m.total_issues>>)
            /\ PctInRange(m.progress_pct)

(* one of two issues is Done and holds all the story points: 50 percent by
   count, 100 by points *)
C4_Witness ==
    /\ ReturnedResults
    /\ R.metrics.total_issues = 2
    /\ R.metrics.status_counts["Done"] = 1
    /\ R.metrics.story_points_done = R.metrics.total_story_points
    /\ R.metrics.total_story_points > 0
    /\ PctEq(R.metrics.progress_pct, <<50, 1>>)

(* C5: each hygiene percentage lies in [0, 100] and the entry is flagged
   exactly when the percentage is strictly greater than its threshold
   (10, 10 and 0 when not configured). *)
C5_HygieneThresholds ==
    ReturnedResults =>
        LET h == R.hygiene
            Ok(entry, configured, default) ==
                /\ PctInRange(entry.percentage)
                /\ entry.is_issue <=>
                      entry.percentage[1] >
                          (IF IsNone(configured) THEN default ELSE configured[1])
                              * entry.percentage[2]
        IN  /\ Ok(h.unassigned_issues, Guidelines.max_unassigned_pct, 10)
            /\ Ok(h.unestimated_issues, Guidelines.max_unestimated_pct, 10)
            /\ Ok(h.issues_without_fix_versions,
                  Guidelines.max_issues_without_fix_versions_pct, 0)

(* half of the issues are unassigned and the threshold is 50: not flagged *)
C5_Witness ==
    /\ ReturnedResults
    /\ Guidelines.max_unassigned_pct = Some(50)
    /\ PctEq(R.hygiene.unassigned_issues.percentage, <<50, 1>>)
    /\ ~R.hygiene.unassigned_issues.is_issue

(* C6: every hygiene entry and every risk entry has count = len(keys). *)
C6_CountIsLenKeys ==
    ReturnedResults =>
        /\ \A e \in {R.hygiene.unassigned_issues, R.hygiene.unestimated_issues,
                     R.hygiene.issues_without_fix_versions} : e.count = Len(e.keys)
        /\ R.risks.overdue_issues.count = Len(R.risks.overdue_issues.keys)
        /\ R.risks.stale_issues.count = Len(R.risks.stale_issues.keys)
        /\ R.risks.blocker_issues.count = Len(R.risks.blocker_issues.keys)

(* two issues carry blocker labels, one of them two such labels *)
C6_Witness ==
    /\ ReturnedResults
    /\ R.risks.blocker_issues.count = 2
    /\ \E i \in DOMAIN R.all_issues : R.all_issues[i].labels = <<"blocker", "Impediment">>

(* The story-points field ids the Field Resolver order allows: the explicit
   story_points_field; else an id mapped to "Story point estimate" or
   "Story Points"; else customfield_10016 *)
ResolverStoryPointsFields ==
    LET named == {config.field_mappings[i][1] :
                    i \in {j \in DOMAIN config.field_mappings :
                             config.field_mappings[j][2]
                                 \in {"Story point estimate", "Story Points"}}}
    IN  IF ~IsNone(config.story_points_field) THEN {config.story_points_field[1]}
        ELSE IF named # {} THEN named
        ELSE {"customfield_10016"}

IssueOfKey(k) == R.all_issues[CHOOSE i \in DOMAIN R.all_issues : R.all_issues[i].key = k]
PointsAt(issue, id) == IF IsNone(GetAttr(issue, id)) THEN 0 ELSE GetAttr(issue, id)[1]
Estimated(issue, id) == PointsAt(issue, id) # 0

(* C7: unestimated_issues lists exactly the issues that are not of type Bug
   and have no story points (None or 0), the story points being those the
   metrics sum; its percentage is taken over all filtered issues. *)
C7_UnestimatedNonBugs ==
    ReturnedResults =>
        \E id \in ResolverStoryPointsFields :
            LET u == R.hygiene.unestimated_issues
                Listed(issue) == issue.issuetype # "Bug" /\ ~Estimated(issue, id)
            IN  /\ R.metrics.total_story_points
                      = SumSeq([i \in DOMAIN R.all_issues |-> PointsAt(R.all_issues[i], id)])
                /\ u.keys = KeysOf(SelectSeq(R.all_issues, Listed))
                /\ PctEq(u.percentage, Pct(Len(u.keys), Len(R.all_issues)))

(* C8: metrics, unestimated check, workload summary and detailed workload
   all read the story points from one field, the one the Field Resolver
   order gives. *)
C8_OneStoryPointsField ==
    ReturnedResults =>
        \E id \in ResolverStoryPointsFields :
            LET Mine(name) ==
                    SelectSeq(R.all_issues,
                              LAMBDA issue : issue.assignee = Some(name))
                Unestimated(issue) == issue.issuetype # "Bug" /\ ~Estimated(issue, id)
            IN  /\ R.metrics.total_story_points
                      = SumSeq([i \in DOMAIN R.all_issues |-> PointsAt(R.all_issues[i], id)])
                /\ Range(R.hygiene.unestimated_issues.keys)
                      = Range(KeysOf(SelectSeq(R.all_issues, Unestimated)))
                /\ \A n \in DOMAIN R.workload :
                      R.workload[n].total_points
                          = SumSeq([i \in DOMAIN Mine(R.workload[n].assignee) |->
                                      PointsAt(Mine(R.workload[n].assignee)[i], id)])
                /\ \A n \in DOMAIN R.detailed_workload :
                      \A e \in Range(R.detailed_workload[n].entries) :
                          e.story_points = PointsAt(IssueOfKey(e.issue_key), id)

(* C9: issues_without_fix_versions lists exactly the issues whose type is
   not "bug" in any letter case and whose fixVersions is empty or missing;
   its percentage is that count over the non-bug issues, 0 without non-bug
   issue; with no threshold configured one such issue is enough to flag. *)
C9_FixVersionHygiene ==
    ReturnedResults =>
        LET e == R.hygiene.issues_without_fix_versions
            NonBug(issue) == issue.issuetype \notin {"Bug", "bug", "BUG"}
            Lacking(issue) ==
                NonBug(issue) /\ (issue.fixVersions = None \/ issue.fixVersions = Some(<<>>))
            non_bugs == Len(SelectSeq(R.all_issues, NonBug))
        IN  /\ e.keys = KeysOf(SelectSeq(R.all_issues, Lacking))
            /\ non_bugs > 0 => PctEq(e.percentage, <<Len(e.keys) * 100, non_bugs>>)
            /\ non_bugs = 0 => PctEq(e.percentage, <<0, 1>>)
            /\ (IsNone(Guidelines.max_issues_without_fix_versions_pct) /\ Len(e.keys) >= 1)
                  => e.is_issue

(* a "BUG" and a Story, neither with a fix version, no threshold configured:
   only the Story is listed, 100 percent, flagged *)
C9_Witness ==
    /\ ReturnedResults
    /\ IsNone(Guidelines.max_issues_without_fix_versions_pct)
    /\ Len(R.all_issues) = 2
    /\ \E i \in DOMAIN R.all_issues :
          R.all_issues[i].issuetype = "BUG" /\ IsNone(R.all_issues[i].fixVersions)
    /\ R.hygiene.issues_without_fix_versions.count = 1
    /\ PctEq(R.hygiene.issues_without_fix_versions.percentage, <<100, 1>>)
    /\ R.hygiene.issues_without_fix_versions.is_issue

(* The epic-link field id of the Field Resolver order: the explicit
   epic_link_field; else the id mapped to "Epic Link"; else the id mapped to
   "Epic Name"; else none *)
MappedTo(name) ==
    {config.field_mappings[i][1] :
        i \in {j \in DOMAIN config.field_mappings : config.field_mappings[j][2] = name}}
ResolverEpicLinkFields ==
    IF ~IsNone(config.epic_link_field) THEN {config.epic_link_field[1]}
    ELSE IF MappedTo("Epic Link") # {} THEN MappedTo("Epic Link")
    ELSE MappedTo("Epic Name")

LookupsMade == SelectSeq(calls, IsLookup)

(* C10: the Epic Extractor reads the explicit epic_link_field, else the id
   mapped to "Epic Link", and the id mapped to "Epic Name" only when no
   "Epic Link" entry exists, whatever the order of the mapping table: the
   epics it looks up are the values of that field. *)
C10_EpicLinkBeforeEpicName ==
    (ReturnedResults /\ config.include_epics) =>
        IF ResolverEpicLinkFields = {} THEN LookupsMade = <<>>
        ELSE \E id \in ResolverEpicLinkFields :
                LET Linked(issue) == ~IsNone(GetAttr(issue, id))
                    linked == SelectSeq(R.all_issues, Linked)
                IN  LookupsMade
                        = [i \in DOMAIN linked |-> IssueLookup(GetAttr(linked[i], id)[1])]

----------------------------------------------------------------------------
(* Properties of the risk lists *)

StaleLimit == IF IsNone(Guidelines.stale_issue_days) THEN 7 ELSE Guidelines.stale_issue_days[1]
BlockerLabelSet ==
    IF IsNone(Guidelines.blocker_labels) THEN {"blocker", "impediment"}
    ELSE {Lower(l) : l \in Range(Guidelines.blocker_labels[1])}

HasDueDate(issue) == ~IsNone(issue.duedate) /\ issue.duedate[1].valid
DueBefore(issue, t) == HasDueDate(issue) /\ issue.duedate[1].day * UnitsPerDay < t
CarriesBlockerLabel(issue) == \E l \in Range(issue.labels) : Lower(l) \in BlockerLabelSet
StaleKeys == {e.key : e \in Range(R.risks.stale_issues.keys)}
BlockerKeys == Range(R.risks.blocker_issues.keys)

(* C11: overdue_issues lists exactly the issues with a parseable due date
   before now and a status other than Done; an issue whose due date is
   missing or does not parse is not listed, and the stale and blocker checks
   still run for it and for the issues after it (an issue last updated more
   than the limit plus one day ago is listed as stale, an issue with a
   blocker label as blocker). *)
C11_Overdue ==
    ReturnedResults =>
        LET Overdue(issue) == DueBefore(issue, now) /\ issue.status # "Done"
        IN  /\ R.risks.overdue_issues.keys = KeysOf(SelectSeq(R.all_issues, Overdue))
            /\ \A i \in DOMAIN R.all_issues :
                  LET issue == R.all_issues[i]
                  IN  /\ ~HasDueDate(issue) => issue.key \notin Range(R.risks.overdue_issues.keys)
                      /\ now - issue.updated >= (StaleLimit + 1) * UnitsPerDay
                            => issue.key \in StaleKeys
                      /\ CarriesBlockerLabel(issue) => issue.key \in BlockerKeys

(* the first issue has a due date that does not parse, is stale and a
   blocker; the second is overdue, stale and a blocker *)
C11_Witness ==
    /\ ReturnedResults
    /\ Len(R.all_issues) = 2
    /\ ~IsNone(R.all_issues[1].duedate) /\ ~R.all_issues[1].duedate[1].valid
    /\ R.risks.overdue_issues.keys = <<R.all_issues[2].key>>
    /\ StaleKeys = {R.all_issues[1].key, R.all_issues[2].key}
    /\ BlockerKeys = {R.all_issues[1].key, R.all_issues[2].key}

(* C12: an issue is listed as stale exactly when the time between its last
   update and now is strictly more than stale_issue_days days, whatever its
   status and also when that time is not a whole number of days. *)
C12_StaleByElapsedTime ==
    ReturnedResults =>
        \A i \in DOMAIN R.all_issues :
            R.all_issues[i].key \in StaleKeys
                <=> now - R.all_issues[i].updated > StaleLimit * UnitsPerDay

(* C13: blocker_issues.keys holds each key at most once and holds exactly
   the issues with at least one label equal, ignoring case, to a blocker
   label in effect. *)
C13_BlockerKeys ==
    ReturnedResults =>
        LET keys == R.risks.blocker_issues.keys
        IN  /\ \A i, j \in DOMAIN keys : i # j => keys[i] # keys[j]
            /\ Range(keys) = {R.all_issues[i].key :
                                i \in {j \in DOMAIN R.all_issues :
                                         CarriesBlockerLabel(R.all_issues[j])}}

(* two issues share the labels "blocker" and "Impediment", both blocker
   labels up to case: each is listed once *)
C13_Witness ==
    /\ ReturnedResults
    /\ Len(R.all_issues) = 2
    /\ \A i \in DOMAIN R.all_issues : R.all_issues[i].labels = <<"blocker", "Impediment">>
    /\ Len(R.risks.blocker_issues.keys) = 2

(* C14: blocker_issues.keys lists the blocker issues in the order in which
   they occur in the filtered issue list. *)
C14_BlockerKeysInListOrder ==
    ReturnedResults =>
        R.risks.blocker_issues.keys = KeysOf(SelectSeq(R.all_issues, CarriesBlockerLabel))

----------------------------------------------------------------------------
(* Properties of the workload views *)

AssignedTo(name) ==
    SelectSeq(R.all_issues, LAMBDA issue : ~IsNone(issue.assignee) /\ issue.assignee[1] = name)
FirstIssueOf(name) ==
    CHOOSE i \in DOMAIN R.all_issues :
        /\ R.all_issues[i].assignee = <<name>>
        /\ \A j \in 1..(i - 1) : R.all_issues[j].assignee # <<name>>

(* C15: the workload summary has one entry per assignee display name with at
   least one filtered issue and none for unassigned issues; total_points is
   the sum of that assignee's story points, a missing value counting 0; the
   entries are in descending order of total_points, equal totals in the
   order in which the assignees first occur in the filtered list. *)
C15_WorkloadSummary ==
    ReturnedResults =>
        LET w == R.workload
        IN  /\ {w[i].assignee : i \in DOMAIN w} = AssigneesIn(R.all_issues)
            /\ \A i, j \in DOMAIN w : i # j => w[i].assignee # w[j].assignee
            /\ \E id \in ResolverStoryPointsFields :
                  \A i \in DOMAIN w :
                      LET mine == AssignedTo(w[i].assignee)
                      IN  w[i].total_points = SumSeq([k \in DOMAIN mine |-> PointsAt(mine[k], id)])
            /\ \A i, j \in DOMAIN w :
                  i < j => \/ w[i].total_points > w[j].total_points
                           \/ /\ w[i].total_points = w[j].total_points
                              /\ FirstIssueOf(w[i].assignee) < FirstIssueOf(w[j].assignee)

(* Bob, seen first, and Alice have equal totals and stay in that order *)
C15_Witness ==
    /\ ReturnedResults
    /\ Len(R.workload) = 2
    /\ R.workload[1].assignee = "Bob" /\ R.workload[2].assignee = "Alice"
    /\ R.workload[1].total_points = R.workload[2].total_points
    /\ R.workload[1].total_points > 0
    /\ FirstIssueOf("Bob") < FirstIssueOf("Alice")

(* C16: in detailed_workload every filtered issue with an assignee occurs
   exactly once, under its assignee, and an unassigned issue nowhere; the
   entries of an assignee are in filtered-list order; issue_link is the
   browse URL followed by the issue key. *)
C16_DetailedWorkload ==
    ReturnedResults =>
        LET d == R.detailed_workload
            Places(key) == {<<n, e>> \in (DOMAIN d) \X (1..Len(R.all_issues)) :
                               e \in DOMAIN d[n].entries /\ d[n].entries[e].issue_key = key}
        IN  /\ \A i \in DOMAIN R.all_issues :
                  LET issue == R.all_issues[i]
                  IN  IF IsNone(issue.assignee)
                      THEN Places(issue.key) = {}
                      ELSE /\ Cardinality(Places(issue.key)) = 1
                           /\ \A pl \in Places(issue.key) : d[pl[1]].assignee = issue.assignee[1]
            /\ \A n \in DOMAIN d :
                  /\ Len(d[n].entries) <= Len(R.all_issues)
                  /\ [e \in DOMAIN d[n].entries |-> d[n].entries[e].issue_key]
                        = KeysOf(AssignedTo(d[n].assignee))
                  /\ \A e \in DOMAIN d[n].entries :
                        d[n].entries[e].issue_link
                            = <<config.jira_browse_url, d[n].entries[e].issue_key>>

(* both issues belong to one assignee and are listed in their order *)
C16_Witness ==
    /\ ReturnedResults
    /\ Len(R.all_issues) = 2
    /\ Len(R.detailed_workload) = 1
    /\ Len(R.detailed_workload[1].entries) = 2
    /\ R.detailed_workload[1].entries[1].issue_key = R.all_issues[1].key
    /\ R.detailed_workload[1].entries[2].issue_link
          = <<config.jira_browse_url, R.all_issues[2].key>>

----------------------------------------------------------------------------
(* Properties of the epic lookups and of the sprint delta *)

EpicKeysRead ==
    IF IsNone(ResolveEpicLinkField(config)) THEN <<>>
    ELSE LET id == ResolveEpicLinkField(config)[1]
             linked == SelectSeq(R.all_issues, LAMBDA issue : ~IsNone(GetAttr(issue, id)))
         IN  [i \in DOMAIN linked |-> GetAttr(linked[i], id)[1]]
LookupKeys == [i \in DOMAIN LookupsMade |-> LookupsMade[i].arg]

(* C17: with epics enabled, the number of single-issue lookups equals the
   number of distinct epic keys of the filtered issues: an epic shared by
   several issues is looked up once and has one entry in the epics map. *)
C17_OneLookupPerEpic ==
    (ReturnedResults /\ config.include_epics) =>
        /\ Len(LookupsMade) = Cardinality(Range(EpicKeysRead))
        /\ \A i, j \in DOMAIN R.epics : i # j => R.epics[i].key # R.epics[j].key

AnalyzeGoesOn ==
    /\ (pc = "done" /\ fetched # <<>>) => ~IsNone(result)
    /\ pc \in {"epics", "detail", "removed", "return"} => ENABLED Next
FailuresContained ==
    ReturnedResults =>
        /\ config.include_epics =>
              /\ LookupKeys = EpicKeysRead
              /\ {R.epics[i].key : i \in DOMAIN R.epics}
                    = {k \in Range(LookupKeys) : k \in DOMAIN tracker.summaries}
        /\ tracker.history_query_fails => R.issues_removed_from_sprint = <<>>
        /\ R.metrics = partial.metrics[1] /\ R.hygiene = partial.hygiene[1]
        /\ R.risks = partial.risks[1] /\ R.workload = partial.workload[1]
KeepsEarlierResults ==
    pc \in {"epics", "detail", "removed"} =>
        /\ partial'.metrics = partial.metrics /\ partial'.hygiene = partial.hygiene
        /\ partial'.risks = partial.risks /\ partial'.workload = partial.workload

(* C18: a failing epic lookup or a failing historical query does not keep
   analyze from returning its result; the steps that make these calls leave
   metrics, hygiene, risks and workload as they were computed; the epics map
   has an entry exactly for the looked-up epics whose lookup succeeded, every
   epic key being looked up, also after a failed lookup; a failed historical
   query gives an empty issues_removed_from_sprint. *)
C18_OptionalLookupsMayFail ==
    [](AnalyzeGoesOn /\ FailuresContained) /\ [][KeepsEarlierResults]_vars

(* the lookup of EPIC-2 raised, EPIC-1 was looked up after it and is the
   only entry of the map; the historical query raised although the tracker
   holds an issue that left the sprint *)
C18_Witness ==
    /\ ReturnedResults
    /\ LookupKeys = <<"EPIC-2", "EPIC-1">>
    /\ Len(R.epics) = 1 /\ R.epics[1].key = "EPIC-1"
    /\ tracker.history_query_fails /\ tracker.history # <<>>
    /\ R.issues_removed_from_sprint = <<>>
    /\ R.metrics.total_issues = 2

(* C19: issues_completed_after_sprint_end lists exactly the filtered issues
   that have a resolution date whose calendar date is later than the
   calendar date of the sprint end: an issue resolved on the end date, at
   whatever time, or without resolution date is not listed. *)
C19_CompletedAfterSprintEnd ==
    ReturnedResults =>
        LET end_day == sprint.endDate \div UnitsPerDay
            Late(issue) == /\ issue.resolutiondate # <<>>
                           /\ issue.resolutiondate[1] >= (end_day + 1) * UnitsPerDay
        IN  R.issues_completed_after_sprint_end = KeysOf(SelectSeq(R.all_issues, Late))

(* the first issue was resolved on the end date after the end instant and is
   not listed, the second on the next day and is listed *)
C19_Witness ==
    /\ ReturnedResults
    /\ Len(R.all_issues) = 2
    /\ R.all_issues[1].resolutiondate # <<>>
    /\ R.all_issues[1].resolutiondate[1] > sprint.endDate
    /\ R.issues_completed_after_sprint_end = <<R.all_issues[2].key>>

(* C20: issues_removed_from_sprint lists exactly the issues the historical
   query returned that are not in the filtered list and whose status
   category is not Done. *)
C20_RemovedFromSprint ==
    ReturnedResults =>
        LET returned == IF tracker.history_query_fails THEN <<>> ELSE tracker.history
            current == {R.all_issues[i].key : i \in DOMAIN R.all_issues}
            Gone(issue) == issue.key \notin current /\ issue.statusCategory # "Done"
        IN  R.issues_removed_from_sprint = KeysOf(SelectSeq(returned, Gone))

(* the history holds an issue still in the sprint, one that left it undone
   and one that left it done: only the second is listed *)
C20_Witness ==
    /\ ReturnedResults
    /\ Len(R.all_issues) = 1
    /\ Len(tracker.history) = 3
    /\ tracker.history[1].key = R.all_issues[1].key
    /\ tracker.history[2].statusCategory = "To Do"
    /\ tracker.history[3].statusCategory = "Done"
    /\ R.issues_removed_from_sprint = <<tracker.history[2].key>>

----------------------------------------------------------------------------
(* Properties of the calls analyze makes and of execute_run *)

(* C21: analyze returns None only when the tracker answered the sprint-issue
   query with zero issues; a tracker error during that query does not end
   in the same None. *)
C21_NoneOnlyForEmptySprint ==
    (pc = "done" /\ IsNone(result)) =>
        (~tracker.sprint_query_fails /\ tracker.sprint_issues = <<>>)

(* C22: when building the tracker client ends in ConnectionError,
   execute_run returns without any per-project work: no sprint is looked up,
   analyze is not called, nothing is reported, exported or mailed, and the
   summary it returns holds the one failure message and nothing else. *)
C22_ConnectionErrorStopsRun ==
    site.connect = "ConnectionError" =>
        /\ rpc \in {"start", "returned"}
        /\ log = <<>>
        /\ pc = "idle" /\ calls = <<>>
        /\ rpc = "returned" => summary = <<FailedToInitialize>>

(* the run over a non-empty project list has returned after the error *)
C22_Witness ==
    /\ site.connect = "ConnectionError"
    /\ rpc = "returned"
    /\ projects # <<>>
    /\ summary = <<FailedToInitialize>>

NoEpicLinkField ==
    /\ IsNone(config.epic_link_field)
    /\ MappedTo("Epic Link") = {}
    /\ MappedTo("Epic Name") = {}

(* C23: when epics are not enabled, or no epic-link field id can be resolved
   from the configuration or the field mappings, the result's epics map is
   empty, no single-issue lookup has been made, and every other sub-result
   is there. *)
C23_NoEpicsWithoutFieldOrFlag ==
    (ReturnedResults /\ (~config.include_epics \/ NoEpicLinkField)) =>
        /\ R.epics = <<>>
        /\ LookupsMade = <<>>
        /\ \A f \in DOMAIN partial : ~IsNone(partial[f])
        /\ R.metrics = partial.metrics[1] /\ R.hygiene = partial.hygiene[1]
        /\ R.risks = partial.risks[1] /\ R.workload = partial.workload[1]
        /\ R.detailed_workload = partial.detailed_workload[1]
        /\ R.metrics.total_issues = Len(R.all_issues)

(* epics are enabled and an issue carries an epic key in the usual field,
   but no field id is configured or mapped *)
C23_Witness ==
    /\ ReturnedResults
    /\ config.include_epics
    /\ NoEpicLinkField
    /\ \E i \in DOMAIN R.all_issues :
          ~IsNone(GetAttr(R.all_issues[i], "customfield_10014"))
    /\ R.epics = <<>>

(* C24: the completed-after-end computation and the historical query run
   only for a report of the previous sprint: during a daily or full run
   analyze makes no historical query. *)
C24_SprintDeltaOnlyForPrevious ==
    args.report_type \in {"daily", "full"} =>
        /\ \A i \in DOMAIN calls : calls[i] # HistoryQuery
        /\ IsNone(partial.issues_completed_after_sprint_end)

TimesCalled(call) == Cardinality({i \in DOMAIN calls : calls[i] = call})
IssuesLinkedTo(epic_key) ==
    IF IsNone(ResolveEpicLinkField(config)) THEN {}
    ELSE {i \in DOMAIN issues :
            GetAttr(issues[i], ResolveEpicLinkField(config)[1]) = <<epic_key>>}

(* C25: within one analyze call the sprint-issue query is made exactly once
   and is the first call; the historical query is made at most once, and
   only after the filter, metrics, hygiene, risks and workload; an epic key
   is looked up at most once per issue that carries it, also when the
   lookup fails. *)
C25_NoRetries ==
    /\ pc \in {"idle", "start"} => calls = <<>>
    /\ pc \in AfterFetch =>
          /\ calls # <<>> /\ calls[1] = SprintQuery
          /\ TimesCalled(SprintQuery) = 1
    /\ TimesCalled(HistoryQuery) <= 1
    /\ TimesCalled(HistoryQuery) = 1 =>
          /\ issues = SelectSeq(fetched, NotCancelled)
          /\ ~IsNone(partial.metrics) /\ ~IsNone(partial.hygiene)
          /\ ~IsNone(partial.risks) /\ ~IsNone(partial.workload)
    /\ \A i \in DOMAIN calls :
          IsLookup(calls[i]) =>
              TimesCalled(calls[i]) <= Cardinality(IssuesLinkedTo(calls[i].arg))

(* one issue is linked to EPIC-2, whose lookup raises: it was looked up
   once, and the historical query, which raised as well, was made once *)
C25_Witness ==
    /\ ReturnedResults
    /\ Cardinality(IssuesLinkedTo("EPIC-2")) = 1
    /\ TimesCalled(IssueLookup("EPIC-2")) = 1
    /\ "EPIC-2" \notin DOMAIN tracker.summaries
    /\ tracker.history_query_fails
    /\ TimesCalled(HistoryQuery) = 1

PositionOf(project_key) ==
    CHOOSE i \in DOMAIN projects : projects[i].project_key = project_key
LogOf(i) == SelectSeq(log, LAMBDA e : e.project = projects[i].project_key)
OpsOf(i) == [j \in DOMAIN LogOf(i) |-> LogOf(i)[j].op]
KindsOf(i) ==
    LET mine == SelectSeq(summary, LAMBDA m : m.project = projects[i].project_key)
    IN  [j \in DOMAIN mine |-> mine[j].kind]
HasNoSprint(i) ==
    IF args.report_type = "previous"
    THEN site.boards[i].sprints_query_fails \/ site.boards[i].closed = <<>>
    ELSE site.boards[i].sprints_query_fails \/ site.boards[i].active = <<>>
HasNoIssues(i) ==
    \/ site.boards[i].tracker.sprint_query_fails
    \/ site.boards[i].tracker.sprint_issues = <<>>
Lookups == {"get_active_sprint", "get_last_closed_sprint"}

(* C26: execute_run deals with the projects one after another in the order
   of the configuration: everything it calls for a project comes after
   everything it called for the projects before, and the analysis of a
   project has returned before the sprint of the next is looked up. A
   project without sprint, or for which analyze returned None, has exactly
   one message in the summary, the skip message, and the run goes on: when
   the run returns after a successful connection the sprint of every
   project has been looked up once, and it ends early only by an exception
   of the connection or of the export of a project that has results. *)
C26_ProjectsInOrder ==
    site.connect = "ok" =>
        /\ \A i, j \in DOMAIN log :
              i < j => PositionOf(log[i].project) <= PositionOf(log[j].project)
        /\ \A i \in DOMAIN log : PositionOf(log[i].project) <= proj
        /\ rpc = "loop" => pc \in {"idle", "done"}
        /\ \A i \in DOMAIN projects :
              /\ OpsOf(i) # <<>> => OpsOf(i)[1] \in Lookups
              /\ \A j \in DOMAIN OpsOf(i) : j > 1 => OpsOf(i)[j] \notin Lookups
              /\ (i < proj /\ HasNoSprint(i)) =>
                    /\ KindsOf(i) = <<"No sprint found">>
                    /\ Len(OpsOf(i)) = 1
              /\ (i < proj /\ ~HasNoSprint(i) /\ HasNoIssues(i)) =>
                    /\ KindsOf(i) = <<"No analysis results">>
                    /\ Len(OpsOf(i)) = 3
              /\ (i < proj /\ ~HasNoSprint(i) /\ ~HasNoIssues(i)) =>
                    /\ OpsOf(i)[Len(OpsOf(i))] = GenerateReport(args.report_type)
                    /\ "Report generated" \in Range(KindsOf(i))
        /\ rpc = "returned" => \A i \in DOMAIN projects : OpsOf(i) # <<>>
        /\ rpc = "raised" =>
              /\ args.export
              /\ proj \in DOMAIN projects
              /\ ~HasNoSprint(proj) /\ ~HasNoIssues(proj)

(* the first project has no sprint, the second has a sprint without issues,
   and the run has returned with one skip message for each *)
C26_Witness ==
    /\ rpc = "returned"
    /\ Len(projects) = 2
    /\ HasNoSprint(1)
    /\ ~HasNoSprint(2) /\ HasNoIssues(2)
    /\ summary = <<Message("No sprint found", projects[1].project_key),
                   Message("No analysis results", projects[2].project_key)>>

----------------------------------------------------------------------------
(* Properties of whole results *)

NothingListed(entry) ==
    /\ entry.keys = <<>> /\ entry.count = 0
    /\ entry.percentage = <<0, 1>>
    /\ ~entry.is_issue

(* C27: when the sprint query returned issues and every one of them has a
   cancelled status, analyze returns a result, not None: all_issues is
   empty, total_issues and progress_pct are 0, every hygiene percentage is 0
   (the guard value, no division by the zero count) with is_issue false, and
   the risk lists and both workload views are empty. *)
C27_AllCancelled ==
    (pc = "done" /\ fetched # <<>> /\ \A i \in DOMAIN fetched : ~NotCancelled(fetched[i])) =>
        /\ ~IsNone(result)
        /\ R.all_issues = <<>>
        /\ R.metrics.total_issues = 0
        /\ R.metrics.progress_pct = <<0, 1>>
        /\ NothingListed(R.hygiene.unassigned_issues)
        /\ NothingListed(R.hygiene.unestimated_issues)
        /\ NothingListed(R.hygiene.issues_without_fix_versions)
        /\ \A k \in DOMAIN R.risks : R.risks[k].keys = <<>> /\ R.risks[k].count = 0
        /\ R.workload = <<>>
        /\ R.detailed_workload = <<>>

(* two cancelled issues, unassigned and without fix version, under
   thresholds of 0 *)
C27_Witness ==
    /\ pc = "done"
    /\ Len(fetched) = 2
    /\ \A i \in DOMAIN fetched :
          /\ ~NotCancelled(fetched[i])
          /\ IsNone(fetched[i].assignee) /\ IsNone(fetched[i].fixVersions)
    /\ Guidelines.max_unassigned_pct = <<0>>
    /\ ~IsNone(result)
    /\ R.all_issues = <<>>

(* C28: no issue that the sprint query returned is listed in
   issues_removed_from_sprint, an issue dropped by the cancelled-status
   filter and returned by the historical query included. *)
C28_FetchedNeverRemoved ==
    ReturnedResults =>
        \A i \in DOMAIN fetched :
            fetched[i].key \notin Range(R.issues_removed_from_sprint)

DetailOf(name) ==
    LET d == R.detailed_workload
    IN  d[CHOOSE n \in DOMAIN d : d[n].assignee = name].entries

(* C29: the workload summary and the detailed workload name the same
   assignees, and for each of them the story_points of the detailed entries
   add up to total_points of the summary, whatever the configuration. *)
C29_WorkloadViewsAgree ==
    ReturnedResults =>
        /\ {R.workload[i].assignee : i \in DOMAIN R.workload}
              = {R.detailed_workload[n].assignee : n \in DOMAIN R.detailed_workload}
        /\ \A i \in DOMAIN R.workload :
              LET entries == DetailOf(R.workload[i].assignee)
              IN  R.workload[i].total_points
                      = SumSeq([e \in DOMAIN entries |-> entries[e].story_points])

(* C30: a due date stands for 00:00 UTC of that date: an issue due on the
   current date with a status other than Done is overdue at every moment
   after 00:00 of that date, and an issue due on a later date is not
   overdue. *)
C30_DueDateIsMidnight ==
    ReturnedResults =>
        \A i \in DOMAIN R.all_issues :
            LET issue == R.all_issues[i]
                today == now \div UnitsPerDay
            IN  HasDueDate(issue) =>
                    /\ (/\ issue.duedate[1].day = today
                        /\ now > today * UnitsPerDay
                        /\ issue.status # "Done")
                          => issue.key \in Range(R.risks.overdue_issues.keys)
                    /\ issue.duedate[1].day > today
                          => issue.key \notin Range(R.risks.overdue_issues.keys)

(* after midnight an issue due today is overdue, one due tomorrow is not *)
C30_Witness ==
    /\ ReturnedResults
    /\ now > Today * UnitsPerDay
    /\ Len(R.all_issues) = 2
    /\ R.all_issues[1].duedate = <<[valid |-> TRUE, day |-> Today]>>
    /\ R.all_issues[2].duedate = <<[valid |-> TRUE, day |-> Today + 1]>>
    /\ R.risks.overdue_issues.keys = <<R.all_issues[1].key>>

====
